---- MODULE Spec2Model ----
(***************************************************************************)
(* Moltbot news crawler: the content-processing pipeline                   *)
(* (MoltbotNewsCrawler.process), the fetcher, the text filter, the keyword *)
(* analyzer and the LLM / messaging connectors it calls.                   *)
(*                                                                         *)
(* Representation.  A Python str is a TLA+ string (Len, \o and SubSeq act  *)
(* on it as len, + and slicing do).  The lexer takes ASCII only, so the    *)
(* program's Chinese literals are written as ASCII translations; each      *)
(* definition names the literal it stands for.  An Optional[str] is a      *)
(* sequence of length 0 (None) or 1 (the string).  A JSON value is a       *)
(* tagged record (JNull, JStr, JBool, JNum, JArr, JObj).  A Python         *)
(* exception is a record [exc |-> TRUE, msg |-> str(e)].  The HTML text    *)
(* of a page is represented by the tree html.parser builds from it: the    *)
(* sequence of its nodes in document order.                                *)
(***************************************************************************)
EXTENDS Integers, Sequences, FiniteSets, TLC

(***************************************************************************)
(* Python values                                                           *)
(***************************************************************************)
None == << >>

Some(s) == << s >>

\* f"{x}" / str(x) of an Optional[str]
Fmt(o) == IF o = None THEN "None" ELSE o[1]

\* bool(x) of an Optional[str]: None and "" are falsy
Truthy(o) == o # None /\ o[1] # ""

\* a or b
PyOr(a, b) == IF Truthy(a) THEN a ELSE b

Min(a, b) == IF a <= b THEN a ELSE b

\* s[:n]
Prefix(s, n) == SubSeq(s, 1, Min(n, Len(s)))

Char(s, i) == SubSeq(s, i, i)

\* a text of n characters whose i-th character depends on i (built by
\* halving, so that no evaluation nests n deep)
RECURSIVE Filler(_, _)
Filler(from, n) ==
    IF n <= 0 THEN ""
    ELSE IF n = 1 THEN (CASE from % 3 = 0 -> "x" [] from % 3 = 1 -> "y" [] OTHER -> "z")
    ELSE Filler(from, n \div 2) \o Filler(from + (n \div 2), n - (n \div 2))

(***************************************************************************)
(* str helpers                                                             *)
(***************************************************************************)
UpperChars == {"A","B","C","D","E","F","G","H","I","J","K","L","M",
               "N","O","P","Q","R","S","T","U","V","W","X","Y","Z"}

LowerChars == {"a","b","c","d","e","f","g","h","i","j","k","l","m",
               "n","o","p","q","r","s","t","u","v","w","x","y","z"}

DigitChars == {"0","1","2","3","4","5","6","7","8","9"}

\* the characters \s matches and str.strip() removes
SpaceChars == {" ", "\n", "\t", "\r"}

LowerOf(c) ==
    CASE c = "A" -> "a" [] c = "B" -> "b" [] c = "C" -> "c" [] c = "D" -> "d"
      [] c = "E" -> "e" [] c = "F" -> "f" [] c = "G" -> "g" [] c = "H" -> "h"
      [] c = "I" -> "i" [] c = "J" -> "j" [] c = "K" -> "k" [] c = "L" -> "l"
      [] c = "M" -> "m" [] c = "N" -> "n" [] c = "O" -> "o" [] c = "P" -> "p"
      [] c = "Q" -> "q" [] c = "R" -> "r" [] c = "S" -> "s" [] c = "T" -> "t"
      [] c = "U" -> "u" [] c = "V" -> "v" [] c = "W" -> "w" [] c = "X" -> "x"
      [] c = "Y" -> "y" [] c = "Z" -> "z" [] OTHER -> c

\* s.lower(), by halving
RECURSIVE Lower(_)
Lower(s) ==
    IF Len(s) = 0 THEN ""
    ELSE IF Len(s) = 1 THEN LowerOf(s)
    ELSE LET h == Len(s) \div 2
         IN  Lower(SubSeq(s, 1, h)) \o Lower(SubSeq(s, h + 1, Len(s)))

\* sub in s
Contains(s, sub) ==
    \E i \in 1..(Len(s) - Len(sub) + 1) : SubSeq(s, i, i + Len(sub) - 1) = sub

\* s.strip()
Strip(s) ==
    LET n == Len(s)
    IN  IF \A i \in 1..n : Char(s, i) \in SpaceChars THEN ""
        ELSE LET a == CHOOSE i \in 1..n :
                        /\ Char(s, i) \notin SpaceChars
                        /\ \A j \in 1..(i - 1) : Char(s, j) \in SpaceChars
                 k == CHOOSE d \in 0..(n - 1) :
                        /\ Char(s, n - d) \notin SpaceChars
                        /\ \A j \in 0..(d - 1) : Char(s, n - j) \in SpaceChars
             IN  SubSeq(s, a, n - k)

\* sep.join(parts)
RECURSIVE Join(_, _)
Join(sep, parts) ==
    IF Len(parts) = 0 THEN ""
    ELSE IF Len(parts) = 1 THEN parts[1]
    ELSE parts[1] \o sep \o Join(sep, Tail(parts))

(***************************************************************************)
(* crawler.py: NewsCrawler                                                 *)
(***************************************************************************)
\* the HTML text of a page, as its parse tree; EmptyHtml is the text ""
EmptyHtml == << >>

CrawlResult(url, html, status_code, success, error_message) ==
    [url |-> url, html |-> html, status_code |-> status_code,
     success |-> success, error_message |-> error_message]

\* What session.get did: it raised a requests.RequestException (msg is
\* str(e)), or it returned a response with a status code and a text.
TransportRaised(msg) == [exc |-> TRUE, msg |-> msg]

TransportResponse(status_code, text) ==
    [exc |-> FALSE, status_code |-> status_code, text |-> text]

\* NewsCrawler.fetch(url), given what the transport did
fetch(url, outcome) ==
    IF outcome.exc
    THEN CrawlResult(url, EmptyHtml, 0, FALSE, Some(outcome.msg))
    ELSE CrawlResult(url, outcome.text, outcome.status_code,
                     outcome.status_code = 200, None)

(***************************************************************************)
(* filter.py: TextFilter                                                   *)
(*                                                                         *)
(* A node of the parse tree is an element [tag, class, parent] or a text   *)
(* node (tag "#text") carrying its string; parent is the index of the      *)
(* enclosing element, 0 at the top.  Nodes are listed in document order.   *)
(***************************************************************************)
Elem(tag, class, parent) ==
    [tag |-> tag, class |-> class, parent |-> parent, text |-> ""]

Text(text, parent) ==
    [tag |-> "#text", class |-> << >>, parent |-> parent, text |-> text]

REMOVE_TAGS == <<"script", "style", "nav", "header", "footer",
                 "aside", "advertisement", "iframe", "noscript">>

NOISE_CLASSES == <<"ad", "ads", "advertisement", "sidebar", "menu",
                   "navigation", "footer", "header", "social", "share">>

min_paragraph_length == 20

FilteredContent(title, body, paragraphs, word_count) ==
    [title |-> title, body |-> body, paragraphs |-> paragraphs,
     word_count |-> word_count]

\* node i is j or lies below j
RECURSIVE Within(_, _, _)
Within(html, i, j) ==
    IF i = j THEN TRUE
    ELSE IF i = 0 THEN FALSE
    ELSE Within(html, html[i].parent, j)

\* the nodes still in the tree once the subtrees rooted in gone were
\* decomposed
Alive(html, gone) ==
    {i \in 1..Len(html) : \A j \in gone : ~Within(html, i, j)}

\* soup.find_all(tag): the elements of that tag still in the tree
FindAllTag(html, gone, tags) ==
    {i \in Alive(html, gone) : html[i].tag \in tags}

\* re.compile(class_name, re.I) matched against a class attribute: one of
\* its tokens, or the attribute as a whole, contains class_name
ClassMatches(class, class_name) ==
    \/ \E k \in 1..Len(class) : Contains(Lower(class[k]), Lower(class_name))
    \/ Contains(Lower(Join(" ", class)), Lower(class_name))

\* soup.find_all(class_=re.compile(class_name, re.I))
FindAllClass(html, gone, class_name) ==
    {i \in Alive(html, gone) :
        html[i].tag # "#text" /\ ClassMatches(html[i].class, class_name)}

\* for tag in REMOVE_TAGS: for element in soup.find_all(tag): decompose()
RECURSIVE RemoveTags(_, _, _)
RemoveTags(html, gone, k) ==
    IF k > Len(REMOVE_TAGS) THEN gone
    ELSE RemoveTags(html, gone \cup FindAllTag(html, gone, {REMOVE_TAGS[k]}), k + 1)

\* for class_name in NOISE_CLASSES: for element in find_all(class_=...): decompose()
RECURSIVE RemoveNoise(_, _, _)
RemoveNoise(html, gone, k) ==
    IF k > Len(NOISE_CLASSES) THEN gone
    ELSE RemoveNoise(html, gone \cup FindAllClass(html, gone, NOISE_CLASSES[k]), k + 1)

\* the indices of a set, ascending (document order)
RECURSIVE Ordered(_)
Ordered(S) ==
    IF S = {} THEN << >>
    ELSE LET m == CHOOSE i \in S : \A j \in S : i <= j
         IN  << m >> \o Ordered(S \ {m})

\* element.get_text(strip=True): the strings below the element, each
\* stripped, the empty ones dropped, joined without a separator
GetText(html, gone, e) ==
    LET strs == Ordered({i \in Alive(html, gone) :
                            html[i].tag = "#text" /\ Within(html, i, e)
                            /\ Strip(html[i].text) # ""})
    IN  Join("", [k \in 1..Len(strs) |-> Strip(html[strs[k]].text)])

\* soup.find(tag): the first such element, None when there is none
Find(html, gone, tag) ==
    LET S == FindAllTag(html, gone, {tag})
    IN  IF S = {} THEN 0 ELSE CHOOSE i \in S : \A j \in S : i <= j

\* TextFilter(min_paragraph_length)
TextFilter(m) == [min_paragraph_length |-> m]

\* a plausible slip: the elements of a noise class left in the tree
extract_KeepsNoise(self, html) ==
    LET gone  == RemoveTags(html, {}, 1)
        h1    == Find(html, gone, "h1")
        tt    == IF h1 # 0 THEN h1 ELSE Find(html, gone, "title")
        title == IF tt # 0 THEN GetText(html, gone, tt) ELSE ""
        ps    == Ordered(FindAllTag(html, gone, {"p", "article"}))
        texts == [k \in 1..Len(ps) |-> GetText(html, gone, ps[k])]
        paragraphs == SelectSeq(texts, LAMBDA t : Len(t) >= self.min_paragraph_length)
        body  == Join("\n\n", paragraphs)
    IN  FilteredContent(title, body, paragraphs, Len(body))

\* TextFilter.extract(html)
extract(self, html) ==
    LET gone  == RemoveNoise(html, RemoveTags(html, {}, 1), 1)
        h1    == Find(html, gone, "h1")
        tt    == IF h1 # 0 THEN h1 ELSE Find(html, gone, "title")
        title == IF tt # 0 THEN GetText(html, gone, tt) ELSE ""
        ps    == Ordered(FindAllTag(html, gone, {"p", "article"}))
        texts == [k \in 1..Len(ps) |-> GetText(html, gone, ps[k])]
        paragraphs == SelectSeq(texts, LAMBDA t : Len(t) >= self.min_paragraph_length)
        body  == Join("\n\n", paragraphs)
    IN  FilteredContent(title, body, paragraphs, Len(body))

(***************************************************************************)
(* analyzer.py: KeywordAnalyzer                                            *)
(*                                                                         *)
(* An ideograph of U+4E00..U+9FFF is written as one ASCII character of     *)
(* CJKChars:  ( ) = gong si,  [ ] = ji tuan,  { } = yin hang,              *)
(* < > = qi ye,  + = xian,  ~ = sheng,  ^ = nv,  _ = shi (scholar),        *)
(* * = zong,  & = cai,  @ = dong,  $ = shi (affair),  ! = de,  ? = yi,     *)
(* ; = ge,  # % | = tai ji dian.                                           *)
(***************************************************************************)
CJKChars == {"(", ")", "[", "]", "{", "}", "<", ">", "+", "~", "^", "_",
             "*", "&", "@", "$", "!", "?", ";", "#", "%", "|"}

\* the stop words that can be written in the model's alphabet: the English
\* ones, and the Chinese ones made of the ideographs above
STOP_WORDS == {"!", "?", "?;",
    "the", "a", "an", "is", "are", "was", "were", "be", "been", "being",
    "have", "has", "had", "do", "does", "did", "will", "would", "could",
    "should", "may", "might", "must", "shall", "can", "need", "dare",
    "to", "of", "in", "for", "on", "with", "at", "by", "from", "as",
    "into", "through", "during", "before", "after", "above", "below",
    "and", "but", "or", "nor", "so", "yet", "both", "either", "neither",
    "this", "that", "these", "those", "i", "you", "he", "she", "it", "we", "they"}

top_n == 20

min_word_length == 2

\* keywords[:10] and top_entities[:10]
ReportCap == 10

AnalysisResult(keywords, total_words, unique_words, top_entities) ==
    [keywords |-> keywords, total_words |-> total_words,
     unique_words |-> unique_words, top_entities |-> top_entities]

\* the class of a character for the regex [U+4E00-U+9FFF]+|[a-zA-Z]+|\d+
CharClass(c) ==
    IF c \in CJKChars THEN "cjk"
    ELSE IF c \in UpperChars \cup LowerChars THEN "latin"
    ELSE IF c \in DigitChars THEN "digit"
    ELSE "none"

\* the last index of the run of characters of set cls that starts at i
RunEnd(s, i, cls) ==
    LET n == Len(s)
        stop == CHOOSE j \in (i + 1)..(n + 1) :
                    /\ (j = n + 1 \/ Char(s, j) \notin cls)
                    /\ \A k \in (i + 1)..(j - 1) : Char(s, k) \in cls
    IN  stop - 1

ClassChars(c) ==
    CASE c = "cjk" -> CJKChars
      [] c = "latin" -> UpperChars \cup LowerChars
      [] c = "digit" -> DigitChars

\* re.findall(r'[U+4E00-U+9FFF]+|[a-zA-Z]+|\d+', text)
SimpleWords(text) ==
    LET n == Len(text)
        starts == Ordered({i \in 1..n :
                     /\ CharClass(Char(text, i)) # "none"
                     /\ (i = 1 \/ CharClass(Char(text, i - 1)) # CharClass(Char(text, i)))})
    IN  [k \in 1..Len(starts) |->
            SubSeq(text, starts[k],
                   RunEnd(text, starts[k], ClassChars(CharClass(Char(text, starts[k])))))]

\* KeywordAnalyzer(top_n, min_word_length)
KeywordAnalyzer(n, m) == [top_n |-> n, min_word_length |-> m]

\* the module's jieba: not installed (JIEBA_AVAILABLE is False), or
\* installed, cut being the list jieba.cut(text) yields
NoJieba == [available |-> FALSE]

Jieba(cut) == [available |-> TRUE, cut |-> cut]

\* the lists a segmenter can cut a text into: contiguous pieces, none
\* empty, that make up the text
RECURSIVE Segmentations(_)
Segmentations(text) ==
    IF Len(text) = 0 THEN {<< >>}
    ELSE UNION {{<< SubSeq(text, 1, k) >> \o rest :
                    rest \in Segmentations(SubSeq(text, k + 1, Len(text)))} :
                k \in 1..Len(text)}

\* a plausible slip: the stop words not filtered out
tokenize_KeepsStopWords(self, text, jieba) ==
    LET words == IF jieba.available THEN jieba.cut ELSE SimpleWords(text)
        kept  == SelectSeq(words, LAMBDA w : Len(w) >= self.min_word_length)
    IN  [k \in 1..Len(kept) |-> Lower(kept[k])]

\* KeywordAnalyzer.tokenize(text)
tokenize(self, text, jieba) ==
    LET words == IF jieba.available THEN jieba.cut ELSE SimpleWords(text)
        kept  == SelectSeq(words, LAMBDA w :
                     Len(w) >= self.min_word_length /\ Lower(w) \notin STOP_WORDS)
    IN  [k \in 1..Len(kept) |-> Lower(kept[k])]

\* Counter(words): the distinct words, in the order of their first
\* occurrence, each with its count
Counter(words) ==
    LET firsts == Ordered({i \in 1..Len(words) :
                              \A j \in 1..(i - 1) : words[j] # words[i]})
    IN  [k \in 1..Len(firsts) |->
            << words[firsts[k]],
               Cardinality({i \in 1..Len(words) : words[i] = words[firsts[k]]}) >>]

\* a plausible slip: among equal counts the item inserted last comes first
RECURSIVE SortByCount_LastFirst(_, _)
SortByCount_LastFirst(items, left) ==
    IF left = {} THEN << >>
    ELSE LET b == CHOOSE i \in left : \A j \in left :
                      \/ items[i][2] > items[j][2]
                      \/ (items[i][2] = items[j][2] /\ i >= j)
         IN  << items[b] >> \o SortByCount_LastFirst(items, left \ {b})

\* sorted(items, key=count, reverse=True): stable, so equal counts keep
\* the order of items
RECURSIVE SortByCount(_, _)
SortByCount(items, left) ==
    IF left = {} THEN << >>
    ELSE LET b == CHOOSE i \in left : \A j \in left :
                      \/ items[i][2] > items[j][2]
                      \/ (items[i][2] = items[j][2] /\ i <= j)
         IN  << items[b] >> \o SortByCount(items, left \ {b})

\* Counter.most_common(n)
most_common(counts, n) ==
    SubSeq(SortByCount(counts, 1..Len(counts)), 1, Min(n, Len(counts)))

\* the end of a match of [A-Z][a-z]+ at i, 0 when there is none
CapWordEnd(s, i) ==
    IF i + 1 <= Len(s) /\ Char(s, i) \in UpperChars /\ Char(s, i + 1) \in LowerChars
    THEN RunEnd(s, i + 1, LowerChars)
    ELSE 0

\* the end of the longest match of (?:\s+[A-Z][a-z]+)* that starts after e
RECURSIVE MoreCapWords(_, _)
MoreCapWords(s, e) ==
    IF e + 1 <= Len(s) /\ Char(s, e + 1) \in SpaceChars
    THEN LET sp == RunEnd(s, e + 1, SpaceChars)
             w  == CapWordEnd(s, sp + 1)
         IN  IF w = 0 THEN e ELSE MoreCapWords(s, w)
    ELSE e

\* the end of a match of [A-Z][a-z]+(?:\s+[A-Z][a-z]+)+ at i, 0 when none
NameEnd(s, i) ==
    LET w == CapWordEnd(s, i)
    IN  IF w = 0 THEN 0
        ELSE LET e == MoreCapWords(s, w) IN IF e = w THEN 0 ELSE e

\* the end of a match of [U+4E00-U+9FFF]{lo,hi}(?:suffixes) at i, 0 when
\* none: the longest run is tried first
SuffixedEnd(s, i, lo, hi, suffixes) ==
    LET fits(k) == /\ i + k + 1 <= Len(s)
                   /\ \A j \in i..(i + k - 1) : Char(s, j) \in CJKChars
                   /\ SubSeq(s, i + k, i + k + 1) \in suffixes
        ks == {k \in lo..hi : fits(k)}
    IN  IF ks = {} THEN 0
        ELSE i + (CHOOSE k \in ks : \A m \in ks : m <= k) + 1

\* gong si | ji tuan | yin hang | qi ye
OrgSuffixes == {"()", "[]", "{}", "<>"}

\* xian sheng | nv shi | zong cai | dong shi
HonorificSuffixes == {"+~", "^_", "*&", "@$"}

\* the end of a match of pattern number p at i
PatternEnd(s, p, i) ==
    CASE p = 1 -> NameEnd(s, i)
      [] p = 2 -> SuffixedEnd(s, i, 2, 4, OrgSuffixes)
      [] p = 3 -> SuffixedEnd(s, i, 2, 3, HonorificSuffixes)

\* re.findall(pattern, text) from position pos on: leftmost matches, not
\* overlapping
RECURSIVE FindAll(_, _, _)
FindAll(s, p, pos) ==
    IF \A i \in pos..Len(s) : PatternEnd(s, p, i) = 0 THEN << >>
    ELSE LET i == CHOOSE i \in pos..Len(s) :
                      /\ PatternEnd(s, p, i) # 0
                      /\ \A j \in pos..(i - 1) : PatternEnd(s, p, j) = 0
             e == PatternEnd(s, p, i)
         IN  << SubSeq(s, i, e) >> \o FindAll(s, p, e + 1)

\* the list entities before list(set(entities))
PooledEntities(text) ==
    FindAll(text, 1, 1) \o FindAll(text, 2, 1) \o FindAll(text, 3, 1)

Range(seq) == {seq[i] : i \in 1..Len(seq)}

\* the sequences list(S) can be: set iteration order is not specified
\* (str hashes are randomized per process)
SetOrders(S) ==
    {q \in [1..Cardinality(S) -> S] : Range(q) = S}

\* KeywordAnalyzer._extract_entities(text), order being the order in which
\* the set was iterated
_extract_entities(text, order) == order

\* KeywordAnalyzer.analyze(text)
analyze(self, text, jieba, order) ==
    LET words == tokenize(self, text, jieba)
        word_counts == Counter(words)
        entities == _extract_entities(text, order)
    IN  AnalysisResult(most_common(word_counts, self.top_n), Len(words),
                       Len(word_counts), Prefix(entities, ReportCap))

(***************************************************************************)
(* JSON values as response.json() returns them, and the Python operations  *)
(* the connectors apply to them.  An operation that raises yields          *)
(* Raised(str(e)); an operation applied to a raised value passes it on, as *)
(* the enclosing try block does.                                           *)
(***************************************************************************)
JNull == [t |-> "null"]

JStr(s) == [t |-> "str", s |-> s]

JBool(b) == [t |-> "bool", b |-> b]

JNum(n) == [t |-> "num", n |-> n]

JArr(a) == [t |-> "arr", a |-> a]

JObj(o) == [t |-> "obj", o |-> o]

Raised(msg) == [t |-> "raise", msg |-> msg]

IsRaised(v) == v.t = "raise"

\* the Python type name in a TypeError / AttributeError message
TypeName(j) ==
    CASE j.t = "null" -> "NoneType" [] j.t = "str" -> "str" [] j.t = "bool" -> "bool"
      [] j.t = "num" -> "int" [] j.t = "arr" -> "list" [] j.t = "obj" -> "dict"

\* key in j
JIn(key, j) ==
    CASE j.t = "raise" -> j
      [] j.t = "obj" -> JBool(key \in DOMAIN j.o)
      [] j.t = "arr" -> JBool(\E k \in 1..Len(j.a) : j.a[k] = JStr(key))
      [] j.t = "str" -> JBool(Contains(j.s, key))
      [] OTHER -> Raised("argument of type '" \o TypeName(j) \o "' is not iterable")

\* j[key], key a str
JItem(j, key) ==
    CASE j.t = "raise" -> j
      [] j.t = "obj" -> IF key \in DOMAIN j.o THEN j.o[key]
                        ELSE Raised("'" \o key \o "'")
      [] j.t = "arr" -> Raised("list indices must be integers or slices, not str")
      [] j.t = "str" -> Raised("string indices must be integers, not 'str'")
      [] OTHER -> Raised("'" \o TypeName(j) \o "' object is not subscriptable")

\* j[0]
JFirst(j) ==
    CASE j.t = "raise" -> j
      [] j.t = "arr" -> IF Len(j.a) > 0 THEN j.a[1]
                        ELSE Raised("list index out of range")
      [] j.t = "str" -> IF Len(j.s) > 0 THEN JStr(Char(j.s, 1))
                        ELSE Raised("string index out of range")
      [] j.t = "obj" -> Raised("0")
      [] OTHER -> Raised("'" \o TypeName(j) \o "' object is not subscriptable")

\* j.get(key, default)
JGet(j, key, default) ==
    CASE j.t = "raise" -> j
      [] j.t = "obj" -> IF key \in DOMAIN j.o THEN j.o[key] ELSE default
      [] OTHER -> Raised("'" \o TypeName(j) \o "' object has no attribute 'get'")

\* {}
JEmptyObj == JObj(<< >>)

\* a JSON string or null as the Optional[str] Python holds
AsOptStr(j) == IF j.t = "str" THEN Some(j.s) ELSE None

\* What requests.post did: it raised (msg is str(e)), or it returned a
\* response; json is what response.json() returns, Raised when the body is
\* not JSON.
HttpRaised(msg) == [exc |-> TRUE, msg |-> msg]

HttpResponse(status_code, text, json) ==
    [exc |-> FALSE, status_code |-> status_code, text |-> text, json |-> json]

\* response.ok: raise_for_status() would not raise
ResponseOk(r) == ~(400 <= r.status_code /\ r.status_code < 600)

NotJson == Raised("Expecting value: line 1 column 1 (char 0)")

(***************************************************************************)
(* connector.py: the LLM connectors                                        *)
(*                                                                         *)
(* generate and summarize yield [ret, posts]: the value returned and the   *)
(* requests handed to requests.post, in order.                             *)
(***************************************************************************)
LLMResponse(content, model, tokens_used, success, error_message) ==
    [content |-> content, model |-> model, tokens_used |-> tokens_used,
     success |-> success, error_message |-> error_message]

\* a connector as its constructor leaves it: api_key or os.getenv(...)
LLMConnector(provider, api_key, env_key) ==
    [provider |-> provider, api_key |-> PyOr(api_key, env_key),
     model |-> IF provider = "openai" THEN "gpt-4o-mini" ELSE "gemini-2.0-flash"]

\* the summarize prompt's instruction, standing for the Chinese literal
\* "please summarise the following news in Traditional Chinese (about 100
\* characters):" and the two line breaks after it
SummarizeInstruction == "Summarize this news in Traditional Chinese (about 100 chars):\n\n"

\* "summary failed: ", standing for the Chinese literal of summarize
SummaryFailed == "summary failed: "

\* the fields of LLMResponse(...) on the success path, or Raised
OpenAIParse(self, data) ==
    LET content == JItem(JItem(JFirst(JItem(data, "choices")), "message"), "content")
        tokens  == JGet(JGet(data, "usage", JEmptyObj), "total_tokens", JNum(0))
    IN  IF IsRaised(content) THEN content
        ELSE IF IsRaised(tokens) THEN tokens
        ELSE JObj([content |-> content, tokens |-> tokens])

\* the rest of generate: the request and the reading of its reply
OpenAI_request(self, prompt, system_prompt, reply) ==
    LET messages == (IF Truthy(system_prompt)
                     THEN << [role |-> "system", content |-> system_prompt[1]] >>
                     ELSE << >>) \o << [role |-> "user", content |-> prompt] >>
        post == [url |-> "https://api.openai.com/v1/chat/completions",
                 credential |-> Fmt(self.api_key), body |-> messages]
        fail(msg) == LLMResponse(Some(""), self.model, 0, FALSE, msg)
    IN  IF reply.exc THEN [ret |-> fail(Some(reply.msg)), posts |-> << post >>]
        ELSE LET data == reply.json
                 has_error == JIn("error", data)
             IN  IF IsRaised(has_error)
                 THEN [ret |-> fail(Some(has_error.msg)), posts |-> << post >>]
                 ELSE IF has_error.b
                 THEN LET m == JItem(JItem(data, "error"), "message")
                      IN  [ret |-> IF IsRaised(m) THEN fail(Some(m.msg))
                                   ELSE fail(AsOptStr(m)),
                           posts |-> << post >>]
                 ELSE LET p == OpenAIParse(self, data)
                      IN  [ret |-> IF IsRaised(p) THEN fail(Some(p.msg))
                                   ELSE LLMResponse(AsOptStr(p.o.content), self.model,
                                                    p.o.tokens.n, TRUE, None),
                           posts |-> << post >>]

\* OpenAIConnector.generate(prompt, system_prompt), given the backend's reply
OpenAI_generate(self, prompt, system_prompt, reply) ==
    IF ~Truthy(self.api_key)
    THEN [ret |-> LLMResponse(Some(""), self.model, 0, FALSE,
                              Some("API key not configured")),
          posts |-> << >>]
    ELSE OpenAI_request(self, prompt, system_prompt, reply)

\* the rest of generate: the request and the reading of its reply
Gemini_request(self, prompt, system_prompt, reply) ==
    LET full_prompt == IF Truthy(system_prompt)
                       THEN system_prompt[1] \o "\n\n" \o prompt ELSE prompt
        post == [url |-> "https://generativelanguage.googleapis.com/v1beta/models/"
                         \o self.model \o ":generateContent",
                 credential |-> Fmt(self.api_key), body |-> << full_prompt >>]
        fail(msg) == LLMResponse(Some(""), self.model, 0, FALSE, msg)
    IN  IF reply.exc THEN [ret |-> fail(Some(reply.msg)), posts |-> << post >>]
        ELSE LET data == reply.json
                 has_error == JIn("error", data)
             IN  IF IsRaised(has_error)
                 THEN [ret |-> fail(Some(has_error.msg)), posts |-> << post >>]
                 ELSE IF has_error.b
                 THEN LET m == JItem(JItem(data, "error"), "message")
                      IN  [ret |-> IF IsRaised(m) THEN fail(Some(m.msg))
                                   ELSE fail(AsOptStr(m)),
                           posts |-> << post >>]
                 ELSE LET content == JItem(JFirst(JItem(JItem(JFirst(
                                         JItem(data, "candidates")), "content"),
                                         "parts")), "text")
                      IN  [ret |-> IF IsRaised(content) THEN fail(Some(content.msg))
                                   ELSE LLMResponse(AsOptStr(content), self.model,
                                                    0, TRUE, None),
                           posts |-> << post >>]

\* GeminiConnector.generate(prompt, system_prompt), given the backend's reply
Gemini_generate(self, prompt, system_prompt, reply) ==
    IF ~Truthy(self.api_key)
    THEN [ret |-> LLMResponse(Some(""), self.model, 0, FALSE,
                              Some("API key not configured")),
          posts |-> << >>]
    ELSE Gemini_request(self, prompt, system_prompt, reply)

\* self.generate(...) of either connector
generate(self, prompt, system_prompt, reply) ==
    IF self.provider = "openai"
    THEN OpenAI_generate(self, prompt, system_prompt, reply)
    ELSE Gemini_generate(self, prompt, system_prompt, reply)

\* OpenAIConnector.summarize / GeminiConnector.summarize (the same text):
\* the str returned (None when the backend's content was null)
summarize(self, text, reply) ==
    LET r == generate(self, SummarizeInstruction \o text, None, reply)
    IN  [ret |-> IF r.ret.success THEN r.ret.content
                 ELSE Some(SummaryFailed \o Fmt(r.ret.error_message)),
         gen |-> r.ret,
         posts |-> r.posts]

(***************************************************************************)
(* connector.py: the messaging connectors                                  *)
(*                                                                         *)
(* send yields [ret, posts] as the LLM connectors do.                      *)
(***************************************************************************)
MessageResult(platform, success, message_id, error_message) ==
    [platform |-> platform, success |-> success, message_id |-> message_id,
     error_message |-> error_message]

\* a connector as its constructor leaves it; the fields a platform does
\* not have stay None.  a is the webhook URL, the bot token or the channel
\* access token; b is the chat id or the user id.
MessagingConnector(platform, a, b) ==
    [platform |-> platform, credential |-> a, target |-> b]

\* DiscordWebhookConnector.send(message)
Discord_send(self, message, reply) ==
    IF ~Truthy(self.credential)
    THEN [ret |-> MessageResult("discord", FALSE, None,
                                Some("Webhook URL not configured")),
          posts |-> << >>]
    ELSE LET post == [url |-> self.credential[1], body |-> [content |-> message]]
         IN  [ret |-> IF reply.exc
                      THEN MessageResult("discord", FALSE, None, Some(reply.msg))
                      ELSE MessageResult("discord", reply.status_code \in {200, 204}, None,
                                         IF ResponseOk(reply) THEN None
                                         ELSE Some(reply.text)),
              posts |-> << post >>]

\* SlackWebhookConnector.send(message)
Slack_send(self, message, reply) ==
    IF ~Truthy(self.credential)
    THEN [ret |-> MessageResult("slack", FALSE, None,
                                Some("Webhook URL not configured")),
          posts |-> << >>]
    ELSE LET post == [url |-> self.credential[1], body |-> [text |-> message]]
         IN  [ret |-> IF reply.exc
                      THEN MessageResult("slack", FALSE, None, Some(reply.msg))
                      ELSE MessageResult("slack", reply.status_code = 200, None,
                                         IF ResponseOk(reply) THEN None
                                         ELSE Some(reply.text)),
              posts |-> << post >>]

\* str(x) of a JSON number, string or null
JToStr(j) ==
    CASE j.t = "null" -> "None" [] j.t = "str" -> j.s [] j.t = "num" -> ToString(j.n)

\* TelegramConnector.send(message)
Telegram_send(self, message, reply) ==
    IF ~Truthy(self.credential) \/ ~Truthy(self.target)
    THEN [ret |-> MessageResult("telegram", FALSE, None,
                                Some("Bot token or chat ID not configured")),
          posts |-> << >>]
    ELSE LET post == [url |-> "https://api.telegram.org/bot" \o self.credential[1]
                              \o "/sendMessage",
                      body |-> [chat_id |-> self.target[1], text |-> message,
                                parse_mode |-> "HTML"]]
             data == reply.json
             ok   == JGet(data, "ok", JBool(FALSE))
             id   == JGet(JGet(data, "result", JEmptyObj), "message_id", JNull)
             desc == JGet(data, "description", JNull)
         IN  [ret |-> IF reply.exc
                      THEN MessageResult("telegram", FALSE, None, Some(reply.msg))
                      ELSE IF IsRaised(ok)
                      THEN MessageResult("telegram", FALSE, None, Some(ok.msg))
                      ELSE IF IsRaised(id)
                      THEN MessageResult("telegram", FALSE, None, Some(id.msg))
                      ELSE MessageResult("telegram", ok.b, Some(JToStr(id)),
                                         AsOptStr(desc)),
              posts |-> << post >>]

PUSH_API_URL == "https://api.line.me/v2/bot/message/push"

\* LINEMessagingConnector._send_messages(messages, user_id)
LINE_send_messages(self, messages, user_id, reply) ==
    LET target_user == PyOr(user_id, self.target)
    IN  IF ~Truthy(self.credential)
        THEN [ret |-> MessageResult("line", FALSE, None,
                          Some("LINE Channel Access Token not configured")),
              posts |-> << >>]
        ELSE IF ~Truthy(target_user)
        THEN [ret |-> MessageResult("line", FALSE, None,
                          Some("LINE User ID not configured")),
              posts |-> << >>]
        ELSE LET post == [url |-> PUSH_API_URL,
                          credential |-> self.credential[1],
                          body |-> [to |-> target_user[1], messages |-> messages]]
                 msg == JGet(reply.json, "message", JStr(reply.text))
             IN  [ret |-> IF reply.exc
                          THEN MessageResult("line", FALSE, None, Some(reply.msg))
                          ELSE IF reply.status_code = 200
                          THEN MessageResult("line", TRUE, None, None)
                          ELSE IF IsRaised(msg)
                          THEN MessageResult("line", FALSE, None, Some(msg.msg))
                          ELSE MessageResult("line", FALSE, None, AsOptStr(msg)),
                  posts |-> << post >>]

\* LINEMessagingConnector.send(message, **kwargs)
LINE_send(self, message, user_id, reply) ==
    LINE_send_messages(self, << [type |-> "text", text |-> message] >>, user_id, reply)

\* LINEMessagingConnector.send_image(image_url, preview_url, **kwargs)
LINE_send_image(self, image_url, preview_url, user_id, reply) ==
    LINE_send_messages(self,
        << [type |-> "image", originalContentUrl |-> image_url,
            previewImageUrl |-> IF Truthy(preview_url) THEN preview_url[1]
                                ELSE image_url] >>,
        user_id, reply)

\* options[:13]: LINE takes 13 quick-reply items at most
QuickReplyCap == 13

\* opt["label"] of an option dict
OptLabel(opt) == IF "label" \in DOMAIN opt THEN JStr(opt.label) ELSE Raised("'label'")

\* the action dict built for one option: a postback when the option has
\* "data", a message otherwise; opt["label"] raises KeyError without a label
QuickReplyAction(opt) ==
    IF IsRaised(OptLabel(opt)) THEN OptLabel(opt)
    ELSE IF "data" \in DOMAIN opt
    THEN JObj([type |-> "postback", label |-> opt.label, data |-> opt.data,
               displayText |-> IF "display_text" \in DOMAIN opt
                               THEN opt.display_text ELSE opt.label])
    ELSE JObj([type |-> "message", label |-> opt.label,
               text |-> IF "text" \in DOMAIN opt THEN opt.text ELSE opt.label])

\* the loop over options[:13]: the items appended, or the first KeyError
RECURSIVE QuickReplyItems(_)
QuickReplyItems(options) ==
    IF options = << >> THEN JArr(<< >>)
    ELSE LET action == QuickReplyAction(Head(options))
             rest == QuickReplyItems(Tail(options))
         IN  IF IsRaised(action) THEN action
             ELSE IF IsRaised(rest) THEN rest
             ELSE JArr(<< [type |-> "action", action |-> action.o] >> \o rest.a)

\* a plausible slip: the loop over options, not over options[:13]
LINE_send_with_quick_reply_NoCap(self, message, options, user_id, reply) ==
    LET items == QuickReplyItems(options)
    IN  IF IsRaised(items) THEN [ret |-> items, posts |-> << >>]
        ELSE LINE_send_messages(self,
                 << [type |-> "text", text |-> message,
                     quickReply |-> [items |-> items.a]] >>,
                 user_id, reply)

\* LINEMessagingConnector.send_with_quick_reply(message, options, **kwargs);
\* the loop runs outside any try block, so its KeyError reaches the caller
LINE_send_with_quick_reply(self, message, options, user_id, reply) ==
    LET items == QuickReplyItems(Prefix(options, QuickReplyCap))
    IN  IF IsRaised(items) THEN [ret |-> items, posts |-> << >>]
        ELSE LINE_send_messages(self,
                 << [type |-> "text", text |-> message,
                     quickReply |-> [items |-> items.a]] >>,
                 user_id, reply)

\* LINEMessagingConnector.send_flex_message(alt_text, contents, **kwargs)
LINE_send_flex_message(self, alt_text, contents, user_id, reply) ==
    LINE_send_messages(self,
        << [type |-> "flex", altText |-> alt_text, contents |-> contents] >>,
        user_id, reply)

\* self.messenger.send(message), as process calls it (no keyword arguments)
send(self, message, reply) ==
    CASE self.platform = "discord"  -> Discord_send(self, message, reply)
      [] self.platform = "telegram" -> Telegram_send(self, message, reply)
      [] self.platform = "slack"    -> Slack_send(self, message, reply)
      [] self.platform = "line"     -> LINE_send(self, message, None, reply)

(***************************************************************************)
(* The environment: what the network can answer                            *)
(***************************************************************************)
\* the character budget of the text handed to summarize: body[:3000]
Budget == 3000

\* how far beyond the budget the longest body of the model reaches
MaxOver == 2

URLS == {"https://news.example/a"}

\* a page with navigation, a heading, two entities in its first paragraph,
\* a paragraph below the minimum length, a sidebar and a footer
PageArticle ==
    << Elem("html", << >>, 0),
       Elem("head", << >>, 1),
       Elem("title", << >>, 2),
       Text("Example News", 3),
       Elem("body", << >>, 1),
       Elem("nav", << >>, 5),
       Text("Home World Tech", 6),
       Elem("h1", << >>, 5),
       Text(" Chip plant announced ", 8),
       Elem("p", << >>, 5),
       Text("Tim Cook said the #%|() plant opens, the plant", 10),
       Elem("p", << >>, 5),
       Text("Read more", 12),
       Elem("div", << "Sidebar", "box" >>, 5),
       Elem("p", << >>, 14),
       Text("Subscribe to the newsletter today", 15),
       Elem("footer", << >>, 5),
       Text("Copyright Example News 2025", 17) >>

\* a page without a heading whose only paragraph has n characters
PageLong(n) ==
    << Elem("html", << >>, 0),
       Elem("title", << >>, 1),
       Text("Long read", 2),
       Elem("p", << >>, 1),
       Text(Filler(1, n), 4) >>

\* a page with no heading, no title and no paragraph
PageBare ==
    << Elem("div", << >>, 0),
       Text("Loading", 1) >>

\* pages whose body stays within the budget of body[:3000]
Pages == {PageArticle, PageBare}

\* pages whose body reaches the budget and goes beyond it
LongPages == {PageLong(n) : n \in {Budget - 1, Budget, Budget + 1, Budget + MaxOver}}

\* what session.get can do for a URL
FetchOutcomes(pages) ==
    {TransportRaised(m) : m \in {"timeout", "connection reset"}}
        \cup {TransportResponse(c, t) : c \in {200, 404, 500},
                                        t \in pages \cup {EmptyHtml}}

\* a chat-completion reply whose content is c
OpenAIContent(c) ==
    JObj([choices |-> JArr(<< JObj([message |-> JObj([role |-> JStr("assistant"),
                                                      content |-> c])]) >>),
          usage |-> JObj([total_tokens |-> JNum(42)])])

\* a generateContent reply whose text is c
GeminiContent(c) ==
    JObj([candidates |-> JArr(<< JObj([content |->
              JObj([parts |-> JArr(<< JObj([text |-> c]) >>)])]) >>)])

\* the JSON bodies both backends can answer with
ErrorBodies ==
    {JObj([error |-> JObj([message |-> JStr("quota exceeded")])]),
     JObj([error |-> JObj([message |-> JNull])]),
     JObj([error |-> JStr("bad request")]),
     JEmptyObj,
     NotJson}

Contents == {JStr("A chip plant opens."), JStr(""), JNull}

\* what requests.post can do for the connector of a provider
LLMReplies(provider) ==
    {HttpRaised("read timed out")}
        \cup {HttpResponse(400, "", b) : b \in ErrorBodies}
        \cup {HttpResponse(200, "", JObj([choices |-> JArr(<< >>)])),
              HttpResponse(200, "", JObj([candidates |-> JArr(<< >>)]))}
        \cup {HttpResponse(200, "", IF provider = "openai" THEN OpenAIContent(c)
                                     ELSE GeminiContent(c)) : c \in Contents}

\* what requests.post can do for the connector of a messaging platform
MessagingReplies(platform) ==
    {HttpRaised("connection refused")} \cup
    CASE platform \in {"discord", "slack"} ->
            {HttpResponse(c, t, NotJson) :
                c \in {200, 201, 204, 404, 500}, t \in {"", "invalid webhook"}}
      [] platform = "telegram" ->
            {HttpResponse(200, "", JObj([ok |-> JBool(TRUE),
                                         result |-> JObj([message_id |-> JNum(7)])])),
             HttpResponse(400, "", JObj([ok |-> JBool(FALSE),
                                         description |-> JStr("chat not found")])),
             HttpResponse(500, "", JObj([ok |-> JBool(FALSE)])),
             HttpResponse(200, "", JArr(<< >>)),
             HttpResponse(502, "Bad Gateway", NotJson)}
      [] platform = "line" ->
            {HttpResponse(200, "{}", JEmptyObj),
             HttpResponse(401, "{\"message\": \"invalid token\"}",
                          JObj([message |-> JStr("invalid token")])),
             HttpResponse(400, "{\"message\": null}", JObj([message |-> JNull])),
             HttpResponse(500, "{}", JEmptyObj),
             HttpResponse(502, "Bad Gateway", NotJson)}

(***************************************************************************)
(* main.py: MoltbotNewsCrawler                                             *)
(***************************************************************************)
VARIABLES
    web,                \* the pages the site can answer with
    llm,                \* self.llm
    messenger,          \* self.messenger: None or Some(connector)
    pc,                 \* where process is: the step it takes next
    url,                \* process's argument url
    send_notification,  \* process's argument send_notification
    crawl_result,       \* locals of process
    filtered,
    analysis,
    summary,
    result,
    report,             \* the dict process returned
    stages,             \* the steps process has run, in order
    llm_text,           \* the text process handed to self.llm.summarize
    llm_response,       \* the LLMResponse generate returned to summarize
    llm_posts,          \* the requests the LLM connector posted
    send_calls,         \* the messages process handed to self.messenger.send
    msg_posts,          \* the requests the messaging connector posted
    args,               \* a library call under check: its receiver and arguments
    ret,                \* what that call returned or raised
    ret2,               \* what the same call returned in another interpreter process
    webhook_events,     \* the webhook requests LINE delivers to the bot
    handler_pc,         \* per request: where callback / its event handler is
    http_response,      \* per request: what callback answered
    run_pc,             \* per request: where its process_news_request thread is
    run_locals,         \* per request: the locals of that thread
    line_sent           \* the replies and pushes the LINE API accepted, in order

\* the state of one MoltbotNewsCrawler and its process call
pipeline_vars == << web, llm, messenger, pc, url, send_notification, crawl_result,
                    filtered, analysis, summary, result, report, stages, llm_text,
                    llm_response, llm_posts, send_calls, msg_posts >>

\* the state of a library call made on its own
lib_vars == << args, ret, ret2 >>

\* the state of the LINE bot server
bot_vars == << webhook_events, handler_pc, http_response, run_pc, run_locals,
               line_sent >>

\* what a step of process leaves alone
other_vars == << lib_vars, bot_vars >>

vars == << pipeline_vars, lib_vars, bot_vars >>

\* a local not assigned yet
Unset == [unset |-> TRUE]

\* no library call on its own, no bot server
IdleLib == args = Unset /\ ret = Unset /\ ret2 = Unset

IdleBot ==
    /\ webhook_events = << >>
    /\ handler_pc = << >>
    /\ http_response = << >>
    /\ run_pc = << >>
    /\ run_locals = << >>
    /\ line_sent = << >>

\* the values an environment variable can have: not set, empty, set
EnvValues(v) == {None, Some(""), Some(v)}

\* create_messaging_connector(platform) with the environment's values
create_messaging_connector(platform, a, b) ==
    CASE platform \in {"discord", "slack"} -> MessagingConnector(platform, a, None)
      [] platform \in {"telegram", "line"} -> MessagingConnector(platform, a, b)

\* MoltbotNewsCrawler.__init__(llm_provider, messaging_platform): the
\* messenger is created only for a platform that is given
Init ==
    /\ web = Pages
    /\ \E provider \in {"openai", "gemini"}, key \in EnvValues("sk-key") :
          llm = LLMConnector(provider, None, key)
    /\ \E platform \in {"none", "discord", "telegram", "slack", "line"},
          a \in {None, Some("credential")}, b \in {None, Some("recipient")} :
          messenger = IF platform = "none" THEN None
                      ELSE Some(create_messaging_connector(platform, a, b))
    /\ pc = "call"
    /\ url = Unset
    /\ send_notification = Unset
    /\ crawl_result = Unset
    /\ filtered = Unset
    /\ analysis = Unset
    /\ summary = Unset
    /\ result = Unset
    /\ report = Unset
    /\ stages = << >>
    /\ llm_text = Unset
    /\ llm_response = Unset
    /\ llm_posts = << >>
    /\ send_calls = << >>
    /\ msg_posts = << >>
    /\ IdleLib
    /\ IdleBot

\* "crawl failed: ", standing for the Chinese literal of process
CrawlFailed == "crawl failed: "

\* the newspaper emoji and the space that open the notification
NewsMark == "[news] "

\* the caller invokes process(url, send_notification)
Call(u, notify) ==
    /\ pc = "call"
    /\ pc' = "fetch"
    /\ url' = u
    /\ send_notification' = notify
    /\ UNCHANGED other_vars
    /\ UNCHANGED << web, llm, messenger, crawl_result, filtered, analysis, summary,
                    result, report, stages, llm_text, llm_response, llm_posts,
                    send_calls, msg_posts >>

\* a plausible slip: the early return on a failed fetch left out
Fetch_NoEarlyReturn(outcome) ==
    /\ pc = "fetch"
    /\ crawl_result' = fetch(url, outcome)
    /\ stages' = Append(stages, "fetch")
    /\ report' = report
    /\ pc' = "extract"
    /\ UNCHANGED other_vars
    /\ UNCHANGED << web, llm, messenger, url, send_notification, filtered, analysis,
                    summary, result, llm_text, llm_response, llm_posts,
                    send_calls, msg_posts >>

\* Step 1: crawl_result = self.crawler.fetch(url); a failure returns
Fetch(outcome) ==
    /\ pc = "fetch"
    /\ crawl_result' = fetch(url, outcome)
    /\ stages' = Append(stages, "fetch")
    /\ IF ~crawl_result'.success
       THEN /\ report' = [error |-> CrawlFailed \o Fmt(crawl_result'.error_message)]
            /\ pc' = "done"
       ELSE /\ report' = report
            /\ pc' = "extract"
    /\ UNCHANGED other_vars
    /\ UNCHANGED << web, llm, messenger, url, send_notification, filtered, analysis,
                    summary, result, llm_text, llm_response, llm_posts,
                    send_calls, msg_posts >>

\* Step 2: filtered = self.filter.extract(crawl_result.html)
Extract ==
    /\ pc = "extract"
    /\ filtered' = extract(TextFilter(min_paragraph_length), crawl_result.html)
    /\ stages' = Append(stages, "extract")
    /\ pc' = "analyze"
    /\ UNCHANGED other_vars
    /\ UNCHANGED << web, llm, messenger, url, send_notification, crawl_result, analysis,
                    summary, result, report, llm_text, llm_response, llm_posts,
                    send_calls, msg_posts >>

\* Step 3: analysis = self.analyzer.analyze(filtered.body), jieba not
\* installed
Analyze ==
    /\ pc = "analyze"
    /\ \E order \in SetOrders(Range(PooledEntities(filtered.body))) :
          analysis' = analyze(KeywordAnalyzer(top_n, min_word_length),
                              filtered.body, NoJieba, order)
    /\ stages' = Append(stages, "analyze")
    /\ pc' = "summarize"
    /\ UNCHANGED other_vars
    /\ UNCHANGED << web, llm, messenger, url, send_notification, crawl_result, filtered,
                    summary, result, report, llm_text, llm_response, llm_posts,
                    send_calls, msg_posts >>

\* a plausible slip: the slice left out
SummaryInput_NoCut(body) == body

\* the text process hands to summarize: filtered.body[:3000]
SummaryInput(body) == Prefix(body, Budget)

\* Step 4: summary = self.llm.summarize(filtered.body[:3000]); the print
\* after it slices summary, which raises TypeError when summary is None
Summarize ==
    /\ pc = "summarize"
    /\ \E reply \in LLMReplies(llm.provider) :
       LET r == summarize(llm, SummaryInput(filtered.body), reply)
       IN  /\ llm_text' = SummaryInput(filtered.body)
           /\ llm_response' = r.gen
           /\ llm_posts' = llm_posts \o r.posts
           /\ summary' = r.ret
           /\ pc' = IF r.ret = None THEN "raised" ELSE "notify"
    /\ stages' = Append(stages, "summarize")
    /\ UNCHANGED other_vars
    /\ UNCHANGED << web, llm, messenger, url, send_notification, crawl_result, filtered,
                    analysis, result, report, send_calls, msg_posts >>

\* the dict process returns at its end
Report ==
    [url |-> url, title |-> filtered.title, summary |-> summary[1],
     keywords |-> Prefix(analysis.keywords, ReportCap),
     entities |-> analysis.top_entities, word_count |-> analysis.total_words]

\* a plausible slip: the caller's flag not consulted
NotifyWanted_IgnoresFlag == messenger # None

\* if send_notification and self.messenger
NotifyWanted == send_notification /\ messenger # None

\* Step 5, taken: result = self.messenger.send(message), then the return
Notify ==
    /\ pc = "notify"
    /\ NotifyWanted
    /\ \E reply \in MessagingReplies(messenger[1].platform) :
       LET message == NewsMark \o filtered.title \o "\n\n" \o summary[1]
           r == send(messenger[1], message, reply)
       IN  /\ send_calls' = Append(send_calls, message)
           /\ msg_posts' = msg_posts \o r.posts
           /\ result' = r.ret
    /\ stages' = Append(stages, "notify")
    /\ report' = Report
    /\ pc' = "done"
    /\ UNCHANGED other_vars
    /\ UNCHANGED << web, llm, messenger, url, send_notification, crawl_result, filtered,
                    analysis, summary, llm_text, llm_response, llm_posts >>

\* Step 5, skipped: the return
Return ==
    /\ pc = "notify"
    /\ ~NotifyWanted
    /\ report' = Report
    /\ pc' = "done"
    /\ UNCHANGED other_vars
    /\ UNCHANGED << web, llm, messenger, url, send_notification, crawl_result, filtered,
                    analysis, summary, result, stages, llm_text, llm_response,
                    llm_posts, send_calls, msg_posts >>

Next ==
    \/ \E u \in URLS, notify \in BOOLEAN : Call(u, notify)
    \/ \E outcome \in FetchOutcomes(web) : Fetch(outcome)
    \/ Extract
    \/ Analyze
    \/ Summarize
    \/ Notify
    \/ Return

Spec == Init /\ [][Next]_vars

\* the runs over the long pages: a configured LLM connector, and no
\* messenger or a configured one
InitLong ==
    /\ web = LongPages \cup {PageArticle}
    /\ \E provider \in {"openai", "gemini"} :
          llm = LLMConnector(provider, None, Some("sk-key"))
    /\ messenger \in {None, Some(create_messaging_connector("discord",
                                        Some("credential"), None))}
    /\ pc = "call"
    /\ url = Unset
    /\ send_notification = Unset
    /\ crawl_result = Unset
    /\ filtered = Unset
    /\ analysis = Unset
    /\ summary = Unset
    /\ result = Unset
    /\ report = Unset
    /\ stages = << >>
    /\ llm_text = Unset
    /\ llm_response = Unset
    /\ llm_posts = << >>
    /\ send_calls = << >>
    /\ msg_posts = << >>
    /\ IdleLib
    /\ IdleBot

SpecLong == InitLong /\ [][Next]_vars

(***************************************************************************)
(* Properties                                                              *)
(***************************************************************************)
StageOrder == << "fetch", "extract", "analyze", "summarize", "notify" >>

FetchDone == crawl_result # Unset
FetchFailed == FetchDone /\ ~crawl_result.success
FetchSucceeded == FetchDone /\ crawl_result.success
SummarizeDone == llm_response # Unset
SummarizeFailed == SummarizeDone /\ ~llm_response.success
SendDone == result # Unset
SendFailed == SendDone /\ ~result.success
Returned == pc = "done"

\* C1: the stages run in the order fetch, extract, analyze, summarize,
\* notify, and the first failing stage ends the run: after a failed fetch
\* no other stage has run, and after a generate that returned success=false
\* the messenger's send is not invoked.
C1_TerminalOnFirstFailure ==
    /\ Len(stages) <= Len(StageOrder)
    /\ stages = SubSeq(StageOrder, 1, Len(stages))
    /\ (FetchFailed => stages = << "fetch" >>)
    /\ (SummarizeFailed => send_calls = << >>)

\* C2 as the specification states it: after a failed fetch the returned
\* report's failure message equals the fetch result's error message, and the
\* report has no title, summary, keywords or entities.
C2_MessageEqualsFetchError ==
    (Returned /\ FetchFailed) =>
        /\ "error" \in DOMAIN report
        /\ Some(report.error) = crawl_result.error_message
        /\ DOMAIN report \cap {"title", "summary", "keywords", "entities"} = {}

\* C2: after a failed fetch the returned report has the one field error,
\* which is the crawl-failure prefix followed by the text of the fetch
\* result's error message (the text None when fetch recorded no message, as
\* for a response that is not 200); no title, summary, keywords or entities.
C2_FetchFailureReport ==
    (Returned /\ FetchFailed) =>
        /\ DOMAIN report = {"error"}
        /\ report.error = CrawlFailed \o Fmt(crawl_result.error_message)
        /\ SubSeq(report.error, Len(CrawlFailed) + 1, Len(report.error))
              = Fmt(crawl_result.error_message)
        /\ stages = << "fetch" >>

\* a run that returned after the transport timed out
C2_TimeoutReported ==
    /\ Returned
    /\ FetchFailed
    /\ crawl_result.error_message = Some("timeout")
    /\ report = [error |-> "crawl failed: timeout"]

\* C3: when summarization failed, or the messenger's send returned
\* success=false, the returned report carries an error together with the
\* url, title and keywords collected before, so that it is never the report
\* of a full success.
C3_FailureGivesPartialReport ==
    (Returned /\ FetchSucceeded /\ (SummarizeFailed \/ SendFailed)) =>
        /\ "error" \in DOMAIN report
        /\ {"url", "title", "keywords"} \subseteq DOMAIN report

\* C4: process returns a report for every outcome of its collaborators; no
\* outcome makes it raise to its caller.
C4_ProcessNeverRaises == pc # "raised"

\* C5: send is invoked at most once in a run, and not at all when
\* send_notification is false or there is no messenger; the report returned
\* then is the report of the stages before, with no error and no send result.
C5_NotifySkipped ==
    /\ Len(send_calls) <= 1
    /\ Len(msg_posts) <= 1
    /\ (pc # "call" /\ (~send_notification \/ messenger = None)) =>
          /\ send_calls = << >>
          /\ msg_posts = << >>
          /\ result = Unset
          /\ ~("notify" \in Range(stages))
          /\ (Returned /\ FetchSucceeded) =>
                (report = Report /\ ~("error" \in DOMAIN report))

\* a run that returned with a messenger present and send_notification false
C5_SkippedWithMessenger ==
    /\ Returned
    /\ FetchSucceeded
    /\ ~send_notification
    /\ messenger # None
    /\ send_calls = << >>
    /\ report = Report

\* C6: the text handed to summarize is a prefix of the extracted body of at
\* most 3000 characters: exactly the first 3000 characters of a longer body,
\* and the whole of a body of at most 3000 characters.
C6_SummaryInputIsPrefix ==
    (Len(stages) >= 4) =>
        /\ Len(llm_text) <= Budget
        /\ Len(llm_text) <= Len(filtered.body)
        /\ llm_text = SubSeq(filtered.body, 1, Len(llm_text))
        /\ (Len(filtered.body) > Budget => Len(llm_text) = Budget)
        /\ (Len(filtered.body) <= Budget => llm_text = filtered.body)

\* a body longer than the budget was cut to the budget
C6_LongBodyCut ==
    /\ Len(stages) >= 4
    /\ Len(filtered.body) > Budget
    /\ Len(llm_text) = Budget
    /\ llm_text # filtered.body

\* C7: a fetch result with success=true has status 200 and a non-empty
\* html; a fetch result with success=false has an empty html.
C7_FetchResultInvariant ==
    FetchDone =>
        /\ (crawl_result.success =>
               crawl_result.status_code = 200 /\ crawl_result.html # EmptyHtml)
        /\ (~crawl_result.success => crawl_result.html = EmptyHtml)

\* C8: a connector with no API key (absent or empty) posts no request, and
\* summarize reports the failure as a failure, never as summary content of
\* the report.
C8_NoCredentialIsFailure ==
    (Len(stages) >= 4 /\ ~Truthy(llm.api_key)) =>
        /\ llm_posts = << >>
        /\ ~llm_response.success
        /\ (Returned => ~("summary" \in DOMAIN report))

\* C9: an LLMResponse with success=true has a non-empty content; one with
\* success=false has an empty content and an error message set.
C9_LLMResponseInvariant ==
    SummarizeDone =>
        /\ (llm_response.success => Truthy(llm_response.content))
        /\ (~llm_response.success =>
               /\ llm_response.content = Some("")
               /\ llm_response.error_message # None)

\* C10: a MessageResult with success=false has an error message set, and
\* one with success=true has none.
C10_MessageResultExclusive ==
    SendDone =>
        /\ (~result.success => result.error_message # None)
        /\ (result.success => result.error_message = None)

(***************************************************************************)
(* connector.py: the operations of the connectors, called on their own     *)
(***************************************************************************)
\* no MoltbotNewsCrawler
IdlePipeline ==
    /\ web = {}
    /\ llm = Unset
    /\ messenger = None
    /\ pc = "off"
    /\ url = Unset
    /\ send_notification = Unset
    /\ crawl_result = Unset
    /\ filtered = Unset
    /\ analysis = Unset
    /\ summary = Unset
    /\ result = Unset
    /\ report = Unset
    /\ stages = << >>
    /\ llm_text = Unset
    /\ llm_response = Unset
    /\ llm_posts = << >>
    /\ send_calls = << >>
    /\ msg_posts = << >>

\* the longest options list handed to send_with_quick_reply
MaxOptions == 15

\* option i of a list: a message option, a postback option with or without
\* display_text, or one with a label only
Option(kind, i) ==
    LET label == "L" \o ToString(i)
    IN  CASE kind = "message" -> [label |-> label, text |-> "pick " \o ToString(i)]
          [] kind = "postback" ->
                IF i % 2 = 0
                THEN [label |-> label, data |-> "action=" \o ToString(i),
                      display_text |-> "I pick " \o ToString(i)]
                ELSE [label |-> label, data |-> "action=" \o ToString(i)]
          [] kind = "label" -> [label |-> label]

\* a list of n options of a kind; the option at position bad (if any) has
\* no label
OptionList(n, kind, bad) ==
    [i \in 1..n |-> IF i = bad THEN [text |-> "pick " \o ToString(i)]
                    ELSE Option(kind, i)]

OptionLists ==
    {OptionList(n, kind, bad) : n \in 0..MaxOptions,
                                kind \in {"message", "postback", "label"},
                                bad \in {0, 1, QuickReplyCap, QuickReplyCap + 1}}

LLMConnectors ==
    {LLMConnector(p, None, k) : p \in {"openai", "gemini"}, k \in EnvValues("sk-key")}

MessagingConnectors ==
    {create_messaging_connector(p, a, b) :
        p \in {"discord", "telegram", "slack", "line"},
        a \in {None, Some("credential")}, b \in {None, Some("recipient")}}

LINEConnectors == {c \in MessagingConnectors : c.platform = "line"}

\* the calls a client of connector.py can make
ConnectorCalls ==
    {[op |-> "generate", self |-> c, prompt |-> "hello", system_prompt |-> s] :
        c \in LLMConnectors, s \in {None, Some("be brief")}}
    \cup {[op |-> "summarize", self |-> c, text |-> "news text"] : c \in LLMConnectors}
    \cup {[op |-> "send", self |-> c, message |-> "hello"] : c \in MessagingConnectors}
    \cup {[op |-> "send_image", self |-> c, image_url |-> "https://img.example/a.png",
           preview_url |-> p, user_id |-> u] :
            c \in LINEConnectors, p \in {None, Some("https://img.example/s.png")},
            u \in {None, Some("U2")}}
    \cup {[op |-> "send_with_quick_reply", self |-> c, message |-> "choose",
           options |-> o, user_id |-> u] :
            c \in LINEConnectors, o \in OptionLists, u \in {None, Some("U2")}}
    \cup {[op |-> "send_flex_message", self |-> c, alt_text |-> "card",
           contents |-> [type |-> "bubble"], user_id |-> u] :
            c \in LINEConnectors, u \in {None, Some("U2")}}

\* what a call did: it returned a value or raised, and the requests it posted
CallOutcome(r) ==
    IF "t" \in DOMAIN r.ret
    THEN [raised |-> TRUE, msg |-> r.ret.msg, posts |-> r.posts]
    ELSE [raised |-> FALSE, value |-> r.ret, posts |-> r.posts]

InitConnector ==
    /\ args \in ConnectorCalls
    /\ ret = Unset
    /\ ret2 = Unset
    /\ IdlePipeline
    /\ IdleBot

Pending(op) == args.op = op /\ ret = Unset

generate_call ==
    /\ Pending("generate")
    /\ \E reply \in LLMReplies(args.self.provider) :
          ret' = CallOutcome(generate(args.self, args.prompt, args.system_prompt, reply))
    /\ UNCHANGED << pipeline_vars, bot_vars, args, ret2 >>

\* summarize returns a str (or None), never a record
summarize_call ==
    /\ Pending("summarize")
    /\ \E reply \in LLMReplies(args.self.provider) :
          LET r == summarize(args.self, args.text, reply)
          IN  ret' = [raised |-> FALSE, value |-> r.ret, posts |-> r.posts]
    /\ UNCHANGED << pipeline_vars, bot_vars, args, ret2 >>

send_call ==
    /\ Pending("send")
    /\ \E reply \in MessagingReplies(args.self.platform) :
          ret' = CallOutcome(send(args.self, args.message, reply))
    /\ UNCHANGED << pipeline_vars, bot_vars, args, ret2 >>

send_image_call ==
    /\ Pending("send_image")
    /\ \E reply \in MessagingReplies("line") :
          ret' = CallOutcome(LINE_send_image(args.self, args.image_url,
                                             args.preview_url, args.user_id, reply))
    /\ UNCHANGED << pipeline_vars, bot_vars, args, ret2 >>

send_with_quick_reply_call ==
    /\ Pending("send_with_quick_reply")
    /\ \E reply \in MessagingReplies("line") :
          ret' = CallOutcome(LINE_send_with_quick_reply(args.self, args.message,
                                             args.options, args.user_id, reply))
    /\ UNCHANGED << pipeline_vars, bot_vars, args, ret2 >>

send_flex_message_call ==
    /\ Pending("send_flex_message")
    /\ \E reply \in MessagingReplies("line") :
          ret' = CallOutcome(LINE_send_flex_message(args.self, args.alt_text,
                                             args.contents, args.user_id, reply))
    /\ UNCHANGED << pipeline_vars, bot_vars, args, ret2 >>

NextConnector ==
    \/ generate_call
    \/ summarize_call
    \/ send_call
    \/ send_image_call
    \/ send_with_quick_reply_call
    \/ send_flex_message_call

SpecConnector == InitConnector /\ [][NextConnector]_vars

CallDone(op) == args # Unset /\ args.op = op /\ ret # Unset

\* C11: no operation of an LLM or messaging connector raises to its caller;
\* every failure is folded into the result it returns.
C11_NoOperationRaises == (args # Unset /\ ret # Unset) => ~ret.raised

\* the options among the first 13 (or fewer) of the call's list
Kept == 1..Min(Len(args.options), QuickReplyCap)

\* the quickReply items of the one message of a posted request
PostedItems(post) == post.body.messages[1].quickReply.items

\* C12: send_with_quick_reply posts one request with one message whose
\* quickReply items are the first min(n, 13) options in their order; the
\* options beyond the 13th are dropped, whatever they are, and the call is
\* not rejected for them.
C12_QuickReplyCap ==
    CallDone("send_with_quick_reply") =>
        /\ ret.raised => \E i \in Kept : ~("label" \in DOMAIN args.options[i])
        /\ (~ret.raised /\ Truthy(args.self.credential)
              /\ Truthy(PyOr(args.user_id, args.self.target))) => Len(ret.posts) = 1
        /\ Len(ret.posts) <= 1
        /\ \A p \in 1..Len(ret.posts) :
              /\ Len(ret.posts[p].body.messages) = 1
              /\ ret.posts[p].body.messages[1].text = args.message
              /\ DOMAIN PostedItems(ret.posts[p]) = Kept
              /\ \A i \in Kept :
                    LET opt == args.options[i]
                        action == PostedItems(ret.posts[p])[i].action
                    IN  /\ action.label = opt.label
                        /\ action.type = IF "data" \in DOMAIN opt THEN "postback"
                                         ELSE "message"
                        /\ ("data" \in DOMAIN opt) => action.data = opt.data

\* 15 options handed over, 13 items posted, and the call accepted
C12_FifteenGiveThirteen ==
    /\ CallDone("send_with_quick_reply")
    /\ Len(args.options) = 15
    /\ ~ret.raised
    /\ Len(ret.posts) = 1
    /\ Len(PostedItems(ret.posts[1])) = 13
    /\ ret.value.success

(***************************************************************************)
(* analyzer.py: KeywordAnalyzer.analyze, called on its own                 *)
(***************************************************************************)
\* the most words a text of the model has
MaxWords == 3

\* the longest text the model lets jieba cut
MaxCut == 5

\* a stop word, a word of one letter, a word of four letters in two
\* spellings, a word of five letters, a two-word name, a company and a person
Vocabulary == {"the", "a", "chip", "Chip", "plant", "Tim Cook", "#%|()", "#%+~"}

\* the texts of at most n words, the words separated by a space
RECURSIVE TextsOf(_)
TextsOf(n) ==
    IF n = 0 THEN {""}
    ELSE TextsOf(n - 1) \cup Vocabulary
            \cup {t \o " " \o w : t \in TextsOf(n - 1) \ {""}, w \in Vocabulary}

\* configurations: the defaults, and smaller and larger values
AnalyzerConfigs ==
    {KeywordAnalyzer(top_n, min_word_length), KeywordAnalyzer(1, min_word_length),
     KeywordAnalyzer(1, 5), KeywordAnalyzer(0, 5)}

\* the calls of analyze: without jieba, and with jieba cutting a short text
AnalyzeCalls ==
    {[op |-> "analyze", self |-> c, text |-> t, jieba |-> NoJieba] :
        c \in AnalyzerConfigs, t \in TextsOf(MaxWords)}
    \cup UNION {{[op |-> "analyze", self |-> c, text |-> t, jieba |-> Jieba(cut)] :
                    c \in AnalyzerConfigs, cut \in Segmentations(t)} :
                t \in {x \in TextsOf(MaxWords) : Len(x) <= MaxCut}}

InitAnalyzer ==
    /\ args \in AnalyzeCalls
    /\ ret = Unset
    /\ ret2 = Unset
    /\ IdlePipeline
    /\ IdleBot

\* analyzer.analyze(text)
analyze_call ==
    /\ Pending("analyze")
    /\ \E order \in SetOrders(Range(PooledEntities(args.text))) :
          ret' = analyze(args.self, args.text, args.jieba, order)
    /\ UNCHANGED << pipeline_vars, bot_vars, args, ret2 >>

\* the same call made again, in another interpreter process (another hash
\* seed, so another iteration order of the set)
analyze_again ==
    /\ args.op = "analyze"
    /\ ret # Unset
    /\ ret2 = Unset
    /\ \E order \in SetOrders(Range(PooledEntities(args.text))) :
          ret2' = analyze(args.self, args.text, args.jieba, order)
    /\ UNCHANGED << pipeline_vars, bot_vars, args, ret >>

NextAnalyzer ==
    \/ analyze_call
    \/ analyze_again

SpecAnalyzer == InitAnalyzer /\ [][NextAnalyzer]_vars

\* the filtered token stream of the call
Tokens == tokenize(args.self, args.text, args.jieba)

CountOf(toks, w) == Cardinality({i \in 1..Len(toks) : toks[i] = w})

FirstOf(toks, w) == CHOOSE i \in 1..Len(toks) :
                        toks[i] = w /\ \A j \in 1..(i - 1) : toks[j] # w

\* w1 ranks before w2: a higher count, or the same count and inserted first
RanksBefore(toks, w1, w2) ==
    \/ CountOf(toks, w1) > CountOf(toks, w2)
    \/ (CountOf(toks, w1) = CountOf(toks, w2) /\ FirstOf(toks, w1) < FirstOf(toks, w2))

\* C13: the keywords are the distinct filtered tokens with their counts,
\* by non-increasing count, equal counts in the order of first occurrence
\* in the filtered token stream, and exactly the first top_n of that order.
C13_KeywordsRanked ==
    CallDone("analyze") =>
        LET kw == ret.keywords
            toks == Tokens
            words == {kw[i][1] : i \in 1..Len(kw)}
        IN  /\ \A i \in 1..Len(kw) :
                  kw[i][1] \in Range(toks) /\ kw[i][2] = CountOf(toks, kw[i][1])
            /\ \A i, j \in 1..Len(kw) :
                  i < j => /\ kw[i][2] >= kw[j][2]
                           /\ RanksBefore(toks, kw[i][1], kw[j][1])
            /\ Len(kw) = Min(args.self.top_n, Cardinality(Range(toks)))
            /\ \A w \in Range(toks) \ words :
                  \A i \in 1..Len(kw) : RanksBefore(toks, kw[i][1], w)

\* two tokens of count 1: the one that occurs first is the one kept
C13_TieKeepsInsertionOrder ==
    /\ CallDone("analyze")
    /\ args.text = "plant the chip"
    /\ args.self.top_n = 1
    /\ ret.keywords = << << "plant", 1 >> >>
    /\ ret.unique_words = 2

\* C14: at most top_n keywords, none a stop word, none shorter than
\* min_word_length; unique_words is the number of distinct filtered tokens
\* and total_words the number of filtered tokens.
C14_KeywordsFiltered ==
    CallDone("analyze") =>
        /\ Len(ret.keywords) <= args.self.top_n
        /\ \A i \in 1..Len(ret.keywords) :
              /\ ret.keywords[i][1] \notin STOP_WORDS
              /\ Len(ret.keywords[i][1]) >= args.self.min_word_length
        /\ LET toks == Tokens
           IN  /\ ret.unique_words = Cardinality(Range(toks))
               /\ ret.total_words = Len(toks)
               /\ \A i \in 1..Len(toks) :
                     /\ toks[i] \notin STOP_WORDS
                     /\ Len(toks[i]) >= args.self.min_word_length

\* a text with a stop word and more distinct tokens than top_n
C14_StopWordDroppedAndCut ==
    /\ CallDone("analyze")
    /\ args.text = "the chip plant"
    /\ ~args.jieba.available
    /\ args.self = KeywordAnalyzer(1, min_word_length)
    /\ ret.keywords = << << "chip", 1 >> >>
    /\ ret.total_words = 2
    /\ ret.unique_words = 2

\* C15: two calls of analyze on the same text with the same configuration
\* return the same keywords and the same entities, in the same order.
C15_AnalyzeDeterministic ==
    (CallDone("analyze") /\ ret2 # Unset) =>
        /\ ret2.keywords = ret.keywords
        /\ ret2.top_entities = ret.top_entities

\* the items of a list at their first occurrence, in their order
StableDedupe(seq) ==
    LET firsts == Ordered({i \in 1..Len(seq) : \A j \in 1..(i - 1) : seq[j] # seq[i]})
    IN  [k \in 1..Len(firsts) |-> seq[firsts[k]]]

\* C16: the entities are the matches of the three patterns pooled in the
\* order of the patterns, the duplicates removed with the first occurrence
\* kept and the order preserved, cut to the first 10; no entity twice.
C16_EntitiesStableDedupe ==
    CallDone("analyze") =>
        /\ ret.top_entities = Prefix(StableDedupe(PooledEntities(args.text)), ReportCap)
        /\ \A i, j \in 1..Len(ret.top_entities) :
              i # j => ret.top_entities[i] # ret.top_entities[j]

(***************************************************************************)
(* filter.py: TextFilter.extract called on its own                         *)
(***************************************************************************)
\* a page whose first paragraph sits in a wrapper <w class=c>, whose second
\* sits in an <article> and holds a <span class=c2>, and whose third is a
\* child of <body>
FilterPage(w, c, t1, t2, c2, t4) ==
    << Elem("html", << >>, 0),
       Elem("body", << >>, 1),
       Elem(w, c, 2),
       Elem("p", << >>, 3),
       Text(t1, 4),
       Elem("article", << >>, 2),
       Elem("p", << >>, 6),
       Text(t2, 7),
       Elem("span", c2, 7),
       Text(" abc ", 9),
       Elem("p", << >>, 2),
       Text(t4, 11) >>

WrapperTags == {"div", "nav", "aside"}

WrapperClasses == {<< >>, << "Sidebar", "box" >>, << "shadow" >>, << "content" >>}

\* texts around the default minimum, bare and inside white space
FirstTexts ==
    {"Read more",
     Filler(1, min_paragraph_length - 1),
     Filler(1, min_paragraph_length),
     " " \o Filler(1, min_paragraph_length - 2) \o " ",
     "  " \o Filler(1, min_paragraph_length) \o "\n"}

FilterPages ==
    {FilterPage(w, c, t1, t2, c2, t4) :
        w \in WrapperTags, c \in WrapperClasses, t1 \in FirstTexts,
        t2 \in {Filler(2, min_paragraph_length - 3), "Tim Cook said the plant opens"},
        c2 \in {<< >>, << "share" >>},
        t4 \in {"", Filler(3, min_paragraph_length + 1)}}

FilterConfigs == {TextFilter(min_paragraph_length), TextFilter(1), TextFilter(0)}

InitFilter ==
    /\ IdlePipeline
    /\ IdleBot
    /\ \E self \in FilterConfigs, html \in FilterPages :
          args = [op |-> "extract", self |-> self, html |-> html]
    /\ ret = Unset
    /\ ret2 = Unset

extract_call ==
    /\ Pending("extract")
    /\ ret' = extract(args.self, args.html)
    /\ UNCHANGED << pipeline_vars, bot_vars, args, ret2 >>

NextFilter == extract_call

SpecFilter == InitFilter /\ [][NextFilter]_vars

\* the elements the denylists name: a tag of REMOVE_TAGS, or a class
\* attribute one of NOISE_CLASSES matches
Denylisted(html) ==
    {a \in 1..Len(html) :
        /\ html[a].tag # "#text"
        /\ \/ html[a].tag \in Range(REMOVE_TAGS)
           \/ \E k \in 1..Len(NOISE_CLASSES) : ClassMatches(html[a].class, NOISE_CLASSES[k])}

\* the <p> and <article> elements outside every denylisted subtree, in
\* document order
ContentElements(html) ==
    Ordered({e \in 1..Len(html) :
                /\ html[e].tag \in {"p", "article"}
                /\ \A a \in Denylisted(html) : ~Within(html, e, a)})

\* C17: every returned paragraph has at least min_paragraph_length
\* characters; the paragraphs are the texts of the <p> and <article> elements
\* outside every denylisted-tag and noise-class subtree, in document order,
\* those below the minimum left out; body is the paragraphs joined by a blank
\* line and word_count is the length of body.
C17_ParagraphsFiltered ==
    CallDone("extract") =>
        LET html  == args.html
            els   == ContentElements(html)
            texts == [k \in 1..Len(els) |-> GetText(html, Denylisted(html), els[k])]
        IN  /\ \A i \in 1..Len(ret.paragraphs) :
                  Len(ret.paragraphs[i]) >= args.self.min_paragraph_length
            /\ ret.paragraphs =
                  SelectSeq(texts, LAMBDA t : Len(t) >= args.self.min_paragraph_length)
            /\ ret.body = Join("\n\n", ret.paragraphs)
            /\ ret.word_count = Len(ret.body)

\* a page whose first paragraph is long enough but sits in a noise-class
\* wrapper, whose <article> and its <p> are both kept, and whose last
\* paragraph is kept after them
C17_NoiseDroppedOrderKept ==
    /\ CallDone("extract")
    /\ args.self = TextFilter(min_paragraph_length)
    /\ args.html[3] = Elem("div", << "Sidebar", "box" >>, 2)
    /\ args.html[5].text = Filler(1, min_paragraph_length)
    /\ args.html[9].class = << >>
    /\ ret.paragraphs = << Filler(2, min_paragraph_length - 3) \o "abc",
                           Filler(2, min_paragraph_length - 3) \o "abc",
                           Filler(3, min_paragraph_length + 1) >>
    /\ ret.word_count = 3 * min_paragraph_length + 5

(***************************************************************************)
(* line_bot.py: the webhook, handle_postback and the background runs       *)
(*                                                                         *)
(* Request r of the webhook carries the postback event webhook_events[r];  *)
(* handler_pc[r] is the position of the server thread that handles it,     *)
(* http_response[r] its response, run_pc[r] the position of the thread     *)
(* handle_postback started for it and run_locals[r] that thread's locals.  *)
(* line_sent lists the messages the LINE API accepted, in order; the field *)
(* by of a message is the request it belongs to.                           *)
(***************************************************************************)
MaxRequests == 2

NEWS_SOURCES ==
    [yahoo  |-> [name |-> "Yahoo News",  url |-> "https://tw.news.yahoo.com/"],
     nikkei |-> [name |-> "Nikkei News", url |-> "https://www.nikkei.com/"]]

\* s.startswith(p)
StartsWith(s, p) == Len(s) >= Len(p) /\ SubSeq(s, 1, Len(p)) = p

\* the position of the first "=" of s at or after i, Len(s) + 1 without one
NextEq(s, i) ==
    LET hits == {j \in i..Len(s) : Char(s, j) = "="}
    IN  IF hits = {} THEN Len(s) + 1
        ELSE CHOOSE j \in hits : \A k \in hits : j <= k

\* data.split("=")[1], for a data that holds a "="
SplitSecond(data) ==
    LET a == NextEq(data, 1)
    IN  SubSeq(data, a + 1, NextEq(data, a + 1) - 1)

\* the texts of the messages
ConfirmText(source_name) == "Selected " \o source_name
ProcessingText(source_name) == "Crawling " \o source_name \o ", please wait..."
CrawlFailureText(error_message) == "Crawl failed: " \o Fmt(error_message)
SummaryHead(source_name) == "[news] " \o source_name \o " summary\n\n"
ErrorText(e) == "Error while processing: " \o e

\* str(e) of the AttributeError of text_filter.extract_main_content:
\* TextFilter defines __init__, extract and clean_text only
NoExtractMainContent ==
    "'TextFilter' object has no attribute 'extract_main_content'"

\* str(e) of the ApiException of a push the API refused
ApiException == "(429)\nReason: Too Many Requests\n"

ReplyMessage(r, event, text) ==
    [api |-> "reply", to |-> event.user_id, text |-> text, by |-> r]

PushMessage(r, to, text) ==
    [api |-> "push", to |-> to, text |-> text, by |-> r]

HttpPending == [status |-> 0, body |-> ""]
HttpResult(status, body) == [status |-> status, body |-> body]

\* the postback events of the model: one recipient, a known source, an
\* unknown one, and a postback of another kind
PostbackEvents ==
    {[user_id |-> "U1", data |-> d, signed |-> sg] :
        d \in {"news_source=yahoo", "news_source=bbc", "menu"}, sg \in {TRUE}}
        \cup {[user_id |-> "U1", data |-> "news_source=yahoo", signed |-> FALSE]}

\* what the transport of a run's fetch did
RunFetchOutcomes ==
    {TransportRaised("timeout"), TransportResponse(200, PageBare)}

InitBot ==
    /\ IdlePipeline
    /\ IdleLib
    /\ IdleBot

Requests == 1..Len(webhook_events)

\* callback() up to reply_message: a request arrives.  A body whose
\* signature does not match is answered 400; handle_postback leaves a
\* postback that names no news source alone; a reply the API refuses raises
\* through handler.handle and callback, and the request is answered 500.
callback ==
    /\ Len(webhook_events) < MaxRequests
    /\ \E event \in PostbackEvents, accepted \in BOOLEAN :
          LET r == Len(webhook_events) + 1
              source_id == SplitSecond(event.data)
              source_name == IF source_id \in DOMAIN NEWS_SOURCES
                             THEN NEWS_SOURCES[source_id].name ELSE "News"
              named == StartsWith(event.data, "news_source=")
          IN  /\ webhook_events' = Append(webhook_events, event)
              /\ line_sent' = IF event.signed /\ named /\ accepted
                              THEN Append(line_sent,
                                       ReplyMessage(r, event, ConfirmText(source_name)))
                              ELSE line_sent
              /\ handler_pc' = Append(handler_pc,
                                  IF ~event.signed THEN "done"
                                  ELSE IF ~named THEN "return"
                                  ELSE IF accepted THEN "start" ELSE "done")
              /\ http_response' = Append(http_response,
                                  IF ~event.signed THEN HttpResult(400, "Bad Request")
                                  ELSE IF named /\ ~accepted
                                       THEN HttpResult(500, "Internal Server Error")
                                       ELSE HttpPending)
    /\ run_pc' = Append(run_pc, "none")
    /\ run_locals' = Append(run_locals, Unset)
    /\ UNCHANGED << pipeline_vars, lib_vars >>

\* a plausible slip: one run per recipient at a time, a postback that
\* arrives during a run starts none
thread_start_OnePerRecipient(r) ==
    /\ r \in Requests
    /\ handler_pc[r] = "start"
    /\ handler_pc' = [handler_pc EXCEPT ![r] = "return"]
    /\ IF \E q \in Requests :
             /\ run_pc[q] \notin {"none", "done", "dead"}
             /\ run_locals[q].user_id = webhook_events[r].user_id
       THEN UNCHANGED << run_pc, run_locals >>
       ELSE /\ run_pc' = [run_pc EXCEPT ![r] = "begin"]
            /\ run_locals' = [run_locals EXCEPT ![r] =
                                [user_id |-> webhook_events[r].user_id,
                                 source_id |-> SplitSecond(webhook_events[r].data),
                                 crawl_result |-> Unset,
                                 e |-> ""]]
    /\ UNCHANGED << pipeline_vars, lib_vars, webhook_events, http_response, line_sent >>

\* thread = threading.Thread(target=process_news_request,
\*                           args=(user_id, source_id)); thread.start()
thread_start(r) ==
    /\ r \in Requests
    /\ handler_pc[r] = "start"
    /\ handler_pc' = [handler_pc EXCEPT ![r] = "return"]
    /\ run_pc' = [run_pc EXCEPT ![r] = "begin"]
    /\ run_locals' = [run_locals EXCEPT ![r] =
                        [user_id |-> webhook_events[r].user_id,
                         source_id |-> SplitSecond(webhook_events[r].data),
                         crawl_result |-> Unset,
                         e |-> ""]]
    /\ UNCHANGED << pipeline_vars, lib_vars, webhook_events, http_response, line_sent >>

\* a plausible slip: thread.join() before the handler returns
callback_return_AfterJoin(r) ==
    /\ r \in Requests
    /\ handler_pc[r] = "return"
    /\ run_pc[r] \in {"none", "done", "dead"}
    /\ handler_pc' = [handler_pc EXCEPT ![r] = "done"]
    /\ http_response' = [http_response EXCEPT ![r] = HttpResult(200, "OK")]
    /\ UNCHANGED << pipeline_vars, lib_vars, webhook_events, run_pc, run_locals, line_sent >>

\* handle_postback and handler.handle return; callback returns "OK"
callback_return(r) ==
    /\ r \in Requests
    /\ handler_pc[r] = "return"
    /\ handler_pc' = [handler_pc EXCEPT ![r] = "done"]
    /\ http_response' = [http_response EXCEPT ![r] = HttpResult(200, "OK")]
    /\ UNCHANGED << pipeline_vars, lib_vars, webhook_events, run_pc, run_locals, line_sent >>

\* process_news_request up to the try: an unknown source ends the run; the
\* 'processing' push is outside the try, and a push the API refuses ends
\* the thread with the exception
run_processing(r) ==
    /\ r \in Requests
    /\ run_pc[r] = "begin"
    /\ LET my == run_locals[r]
       IN  IF my.source_id \notin DOMAIN NEWS_SOURCES
           THEN /\ run_pc' = [run_pc EXCEPT ![r] = "done"]
                /\ UNCHANGED line_sent
           ELSE \E accepted \in BOOLEAN :
                   IF accepted
                   THEN /\ line_sent' = Append(line_sent,
                                PushMessage(r, my.user_id,
                                    ProcessingText(NEWS_SOURCES[my.source_id].name)))
                        /\ run_pc' = [run_pc EXCEPT ![r] = "fetch"]
                   ELSE /\ run_pc' = [run_pc EXCEPT ![r] = "dead"]
                        /\ UNCHANGED line_sent
    /\ UNCHANGED << pipeline_vars, lib_vars, webhook_events, handler_pc,
                    http_response, run_locals >>

\* the try: crawl_result = crawler.fetch(source_info["url"]); a failed
\* fetch is reported and the run returns; after a fetch that succeeded,
\* text_filter.extract_main_content raises AttributeError, so that the
\* statements after it (the summary request and its two pushes) are never
\* reached.  A push the API refuses raises into the except clause too.
run_try(r) ==
    /\ r \in Requests
    /\ run_pc[r] = "fetch"
    /\ \E outcome \in RunFetchOutcomes :
          LET my == run_locals[r]
              crawled == fetch(NEWS_SOURCES[my.source_id].url, outcome)
          IN  IF ~crawled.success
              THEN \E accepted \in BOOLEAN :
                      IF accepted
                      THEN /\ line_sent' = Append(line_sent,
                                   PushMessage(r, my.user_id,
                                       CrawlFailureText(crawled.error_message)))
                           /\ run_pc' = [run_pc EXCEPT ![r] = "done"]
                           /\ run_locals' = [run_locals EXCEPT
                                                ![r].crawl_result = crawled]
                      ELSE /\ run_pc' = [run_pc EXCEPT ![r] = "except"]
                           /\ run_locals' = [run_locals EXCEPT
                                                ![r].crawl_result = crawled,
                                                ![r].e = ApiException]
                           /\ UNCHANGED line_sent
              ELSE /\ run_pc' = [run_pc EXCEPT ![r] = "except"]
                   /\ run_locals' = [run_locals EXCEPT
                                        ![r].crawl_result = crawled,
                                        ![r].e = NoExtractMainContent]
                   /\ UNCHANGED line_sent
    /\ UNCHANGED << pipeline_vars, lib_vars, webhook_events, handler_pc, http_response >>

\* except Exception as e: the error is pushed; a push the API refuses here
\* ends the thread with the exception
run_except(r) ==
    /\ r \in Requests
    /\ run_pc[r] = "except"
    /\ \E accepted \in BOOLEAN :
          IF accepted
          THEN /\ line_sent' = Append(line_sent,
                       PushMessage(r, run_locals[r].user_id, ErrorText(run_locals[r].e)))
               /\ run_pc' = [run_pc EXCEPT ![r] = "done"]
          ELSE /\ run_pc' = [run_pc EXCEPT ![r] = "dead"]
               /\ UNCHANGED line_sent
    /\ UNCHANGED << pipeline_vars, lib_vars, webhook_events, handler_pc,
                    http_response, run_locals >>

\* one step of the background run of request r
run_step(r) ==
    \/ run_processing(r)
    \/ run_try(r)
    \/ run_except(r)

NextBot ==
    \/ callback
    \/ \E r \in 1..MaxRequests :
          \/ thread_start(r)
          \/ callback_return(r)
          \/ run_step(r)

SpecBot == InitBot /\ [][NextBot]_vars

\* the run of request r was started and has not ended
InFlight(r) == run_pc[r] \in {"begin", "fetch", "except"}

\* the positions in line_sent of the pushes of the run of request r
PushesOf(r) ==
    {i \in 1..Len(line_sent) : line_sent[i].api = "push" /\ line_sent[i].by = r}

\* C18: the confirmation reply of a postback precedes every push of the run
\* it dispatches, and the handler's next step (starting the thread,
\* returning "OK" from the callback) can be taken whatever the position of
\* that run: begun, waiting for its fetch, ended or dead.
C18_HandlerNeverWaits ==
    /\ \A i \in 1..Len(line_sent) :
          line_sent[i].api = "push" =>
             \E j \in 1..(i - 1) :
                 /\ line_sent[j].api = "reply"
                 /\ line_sent[j].by = line_sent[i].by
    /\ \A r \in Requests :
          /\ handler_pc[r] = "start" => ENABLED thread_start(r)
          /\ handler_pc[r] = "return" => ENABLED callback_return(r)
          /\ http_response[r] = HttpPending => handler_pc[r] # "done"

\* the callback has answered "OK" while the run it dispatched is waiting
\* for its fetch, the 'processing' push sent after the reply
C18_AnsweredWhileRunInFlight ==
    \E r \in Requests :
        /\ http_response[r] = HttpResult(200, "OK")
        /\ run_pc[r] = "fetch"
        /\ PushesOf(r) # {}

\* C19: a run that ended after a fetch that succeeded has pushed the
\* summary of the page to the recipient.
C19_SummaryDelivered ==
    \A r \in Requests :
        (/\ run_pc[r] = "done"
         /\ run_locals[r].source_id \in DOMAIN NEWS_SOURCES
         /\ run_locals[r].crawl_result.success)
            => \E i \in PushesOf(r) :
                  /\ line_sent[i].to = run_locals[r].user_id
                  /\ StartsWith(line_sent[i].text,
                                SummaryHead(NEWS_SOURCES[run_locals[r].source_id].name))

\* C20: every postback that was confirmed and whose handler went on has a
\* run of its own, whatever the other runs of the recipient do; a run in
\* flight can always take its next step, whatever the other runs do; and
\* the locals of a run come from its own event only.
C20_RunsIndependent ==
    \A r \in Requests :
        /\ (/\ handler_pc[r] \in {"return", "done"}
            /\ \E i \in 1..Len(line_sent) :
                  line_sent[i].api = "reply" /\ line_sent[i].by = r)
              => run_pc[r] # "none"
        /\ InFlight(r) =>
              /\ ENABLED run_step(r)
              /\ run_locals[r].user_id = webhook_events[r].user_id
              /\ run_locals[r].source_id = SplitSecond(webhook_events[r].data)
              /\ run_locals[r].crawl_result # Unset =>
                    run_locals[r].crawl_result.url = NEWS_SOURCES[run_locals[r].source_id].url

\* two runs of one recipient in flight together, their pushes interleaved:
\* the first run's, the second's, the first's, the second's
C20_PushesInterleaved ==
    /\ Len(webhook_events) >= 2
    /\ webhook_events[1].user_id = webhook_events[2].user_id
    /\ run_pc[1] = "done"
    /\ InFlight(2)
    /\ \E i, j, k \in 1..Len(line_sent) :
          /\ i < j /\ j < k
          /\ i \in PushesOf(1)
          /\ j \in PushesOf(2)
          /\ k \in PushesOf(1)

(***************************************************************************)
(* filter.py: TextFilter.clean_text called on its own                      *)
(***************************************************************************)
\* the characters of [\x00-\x1f\x7f-\x9f] in the model's alphabet: the three
\* that are white space as well, and "\\", which stands for U+0000, a
\* control character \s does not match
ControlChars == {"\n", "\t", "\r", "\\"}

\* what re.sub(r'\s+', ' ', text) leaves of the characters a..b of text: the
\* first character of a run of white space becomes a space, the others
\* vanish (by halving)
RECURSIVE SubSpacesIn(_, _, _)
SubSpacesIn(text, a, b) ==
    IF a > b THEN ""
    ELSE IF a = b
         THEN IF Char(text, a) \notin SpaceChars THEN Char(text, a)
              ELSE IF a > 1 /\ Char(text, a - 1) \in SpaceChars THEN ""
              ELSE " "
    ELSE LET h == (a + b) \div 2
         IN  SubSpacesIn(text, a, h) \o SubSpacesIn(text, h + 1, b)

\* re.sub(r'\s+', ' ', text)
SubSpaces(text) == SubSpacesIn(text, 1, Len(text))

\* re.sub(r'[\x00-\x1f\x7f-\x9f]', '', text), by halving
RECURSIVE SubControl(_)
SubControl(text) ==
    IF Len(text) = 0 THEN ""
    ELSE IF Len(text) = 1 THEN (IF text \in ControlChars THEN "" ELSE text)
    ELSE LET h == Len(text) \div 2
         IN  SubControl(SubSeq(text, 1, h)) \o SubControl(SubSeq(text, h + 1, Len(text)))

\* TextFilter.clean_text(text)
clean_text(text) == Strip(SubControl(SubSpaces(text)))

MaxText == 5

CleanAlphabet == {"a", " ", "\n", "\t", "\\"}

\* the texts of at most n characters over the alphabet
RECURSIVE CleanTexts(_)
CleanTexts(n) ==
    IF n = 0 THEN {""}
    ELSE LET shorter == CleanTexts(n - 1)
         IN  shorter \cup {t \o c : t \in shorter, c \in CleanAlphabet}

InitCleanText ==
    /\ IdlePipeline
    /\ IdleBot
    /\ \E text \in CleanTexts(MaxText) : args = [op |-> "clean_text", text |-> text]
    /\ ret = Unset
    /\ ret2 = Unset

\* cleaned = text_filter.clean_text(text)
clean_text_call ==
    /\ Pending("clean_text")
    /\ ret' = [text |-> clean_text(args.text)]
    /\ UNCHANGED << pipeline_vars, bot_vars, args, ret2 >>

\* text_filter.clean_text(cleaned)
clean_text_again ==
    /\ CallDone("clean_text")
    /\ ret2 = Unset
    /\ ret2' = [text |-> clean_text(ret.text)]
    /\ UNCHANGED << pipeline_vars, bot_vars, args, ret >>

NextCleanText ==
    \/ clean_text_call
    \/ clean_text_again

SpecCleanText == InitCleanText /\ [][NextCleanText]_vars

\* C21: the output of clean_text holds no control character and no two
\* consecutive white-space characters, and clean_text applied to it returns
\* it unchanged.
C21_CleanTextIdempotent ==
    CallDone("clean_text") =>
        /\ \A i \in 1..Len(ret.text) : Char(ret.text, i) \notin ControlChars
        /\ \A i \in 1..(Len(ret.text) - 1) :
              ~(Char(ret.text, i) \in SpaceChars /\ Char(ret.text, i + 1) \in SpaceChars)
        /\ ret2 # Unset => ret2.text = ret.text

====
